---- MODULE Spec2Model ----
(***************************************************************************)
(* A model of the flowy decider: the SWF decision loop of                  *)
(* flowy/client.py (WorkflowClient.start, WorkflowResponse, SWFClient),    *)
(* the replay runner of pyswf/workflow.py (Workflow, ActivityProxy) and    *)
(* the argument-dependency layers of flowy/scheduler.py and                *)
(* flowy/runtime.py.                                                       *)
(***************************************************************************)
EXTENDS Integers, Sequences, FiniteSets, TLC

(***************************************************************************)
(* Bounds of the model.                                                    *)
(***************************************************************************)
\* the longest event history of one execution
MaxEvents == 12
\* how often one decision task is handed out before its reply is accepted
MaxAttempts == 2
\* the integers that str()/int() and json convert
MaxInt == MaxEvents + 4
\* the longest positional / keyword argument list fed to the args layers
MaxArgs == 2

(***************************************************************************)
(* Python values, json.dumps / json.loads, str() / int().                  *)
(***************************************************************************)
PyInt(n) == [ty |-> "int", i |-> n, s |-> ""]

PyStr(t) == [ty |-> "str", i |-> 0, s |-> t]

PyNone == [ty |-> "none", i |-> 0, s |-> ""]

\* the strings a workflow of the model returns or an activity fails with
StrUniverse == {"handled", "boom", "a", "b"}

\* json.dumps of a plain value
JsonDumps(v) ==
  CASE v.ty = "int" -> ToString(v.i)
    [] v.ty = "str" -> "\"" \o v.s \o "\""
    [] OTHER -> "null"

\* json.loads of a text json.dumps produced
JsonLoads(raw) ==
  IF raw = "null" THEN PyNone
  ELSE IF \E n \in 0..MaxInt : ToString(n) = raw
       THEN PyInt(CHOOSE n \in 0..MaxInt : ToString(n) = raw)
       ELSE PyStr(CHOOSE t \in StrUniverse : JsonDumps(PyStr(t)) = raw)

\* str(n)
ToStr(n) == ToString(n)

\* int(s)
ToInt(s) == CHOOSE n \in 0..MaxInt : ToString(n) = s

\* _str_or_none on an optional value (<<>> is None, <<v>> is v)
StrOrNone(o) == IF o = <<>> THEN <<>> ELSE <<ToStr(o[1])>>

(***************************************************************************)
(* MaybeResult (pyswf/workflow.py) and the objects passed as arguments.    *)
(* k = "V": a plain value, "P": MaybeResult(), "R": MaybeResult(v),        *)
(* "E": MaybeResult(reason, is_error=True), "T": a (key, value) tuple.     *)
(***************************************************************************)
Plain(v) == [k |-> "V", r |-> v]

Placeholder == [k |-> "P", r |-> PyNone]

MResult(v) == [k |-> "R", r |-> v]

MError(reason) == [k |-> "E", r |-> PyStr(reason)]

Tuple2 == [k |-> "T", r |-> PyNone]

IsMaybeResult(o) == o.k \in {"P", "R", "E"}

\* MaybeResult.is_placeholder
is_placeholder(o) == o.k = "P"

\* MaybeResult.result: what dereferencing does
result(o) ==
  CASE o.k = "P" -> [how |-> "SyncNeeded", v |-> PyNone, msg |-> ""]
    [] o.k = "E" -> [how |-> "ActivityError", v |-> PyNone, msg |-> o.r.s]
    [] OTHER -> [how |-> "value", v |-> o.r, msg |-> ""]

(***************************************************************************)
(* ActivityOptions: <<heartbeat, schedule_to_close, schedule_to_start,     *)
(* start_to_close, task_list>>, each <<>> (None) or <<v>>.                 *)
(***************************************************************************)
NoOptions == <<<<>>, <<>>, <<>>, <<>>, <<>>>>

Heartbeat(o) == <<o, <<>>, <<>>, <<>>, <<>>>>

\* ActivityOptions.update_with: other's field unless it is None
update_with(self, other) ==
  [i \in 1..5 |-> IF other[i] # <<>> THEN other[i] ELSE self[i]]

(***************************************************************************)
(* Workflow programs: the user's run(), as a list of statements.           *)
(***************************************************************************)
Lit(n) == [a |-> "lit", n |-> n]

Var(v) == [a |-> "var", n |-> v]

Res(v) == [a |-> "res", n |-> v]

In(i) == [a |-> "in", n |-> i]

\* dst = self.act(*args, **kw), the proxy declared with heartbeat hb
Call(dst, act, args, kw, hb, retry) ==
  [op |-> "call", dst |-> dst, act |-> act, args |-> args, kw |-> kw,
   hb |-> hb, retry |-> retry]

\* with self.options(error_handling=eh, heartbeat=hb):
With(eh, hb) == [op |-> "with", eh |-> eh, hb |-> hb]

\* the end of the with block
EndWith == [op |-> "endwith"]

\* src.result()
Deref(src) == [op |-> "deref", src |-> src]

\* return src.result()
Ret(src) == [op |-> "ret", src |-> src]

\* try: return src.result()  except ActivityError: return handled
TryRet(src, handled) == [op |-> "tryret", src |-> src, handled |-> handled]

DefaultRetry == 3

Programs ==
  [S1 |-> <<Call(1, "add", <<In(1), In(2)>>, <<>>, <<>>, DefaultRetry), Ret(1)>>,
   S3 |-> <<Call(1, "f", <<Lit(1)>>, <<>>, <<>>, DefaultRetry),
            Call(2, "g", <<Var(1)>>, <<>>, <<>>, DefaultRetry), Ret(2)>>,
   S3r |-> <<Call(1, "f", <<Lit(1)>>, <<>>, <<>>, DefaultRetry),
             Call(2, "g", <<Res(1)>>, <<>>, <<>>, DefaultRetry), Ret(2)>>,
   S4 |-> <<Call(1, "f", <<Lit(1)>>, <<>>, <<>>, 1), Ret(1)>>,
   S4z |-> <<Call(1, "f", <<Lit(1)>>, <<>>, <<>>, 0), Ret(1)>>,
   S5 |-> <<With(<<TRUE>>, <<>>), Call(1, "f", <<Lit(1)>>, <<>>, <<>>, DefaultRetry),
            TryRet(1, "handled"), EndWith>>,
   S6 |-> <<With(<<FALSE>>, <<>>), Call(1, "f", <<Lit(1)>>, <<>>, <<>>, DefaultRetry),
            TryRet(1, "handled"), EndWith>>,
   Scope |-> <<Call(1, "f", <<Lit(1)>>, <<>>, <<>>, 1),
               With(<<TRUE>>, <<5>>), Call(2, "g", <<Lit(2)>>, <<>>, <<7>>, 0),
               Deref(2), EndWith, Ret(1)>>,
   ErrOn |-> <<With(<<TRUE>>, <<>>), Call(1, "f", <<Lit(1)>>, <<>>, <<>>, 0),
               Call(2, "g", <<Lit(2)>>, <<>>, <<>>, 0),
               Call(3, "h", <<Var(1), Var(2)>>, <<>>, <<>>, 0), TryRet(3, "handled"), EndWith>>,
   ErrOff |-> <<With(<<TRUE>>, <<>>), Call(1, "f", <<Lit(1)>>, <<>>, <<>>, 0),
                Call(2, "g", <<Lit(2)>>, <<>>, <<>>, 0), EndWith,
                Call(3, "h", <<Var(1)>>, <<Var(2)>>, <<>>, 0), Ret(3)>>,
   Par |-> <<Call(1, "f", <<Lit(1)>>, <<>>, <<>>, 0),
             Call(2, "g", <<Var(1)>>, <<>>, <<>>, 0),
             Call(3, "h", <<Lit(2)>>, <<>>, <<>>, 0), Ret(2)>>,
   Kw |-> <<Call(1, "f", <<Lit(1)>>, <<>>, <<>>, 0),
            Call(2, "g", <<>>, <<Var(1)>>, <<>>, 0), Ret(2)>>,
   Fire |-> <<Call(1, "f", <<Lit(1)>>, <<>>, <<>>, 0)>>]

ProgramNames == DOMAIN Programs

\* the workflow input of every execution: '{"args": [1, 2], "kwargs": {}}'
WorkflowInput == [args |-> <<JsonDumps(PyInt(1)), JsonDumps(PyInt(2))>>, kwargs |-> <<>>]

\* Workflow.deserialize_workflow_input
deserialize_workflow_input(data) == [i \in DOMAIN data.args |-> JsonLoads(data.args[i])]

\* Workflow.serialize_workflow_result
serialize_workflow_result(v) == JsonDumps(v)

\* the local variables of a program
NVars == 3

(***************************************************************************)
(* The server's event history.  Every event is a record of the same shape; *)
(* an event's id is its position in the history.                           *)
(***************************************************************************)
Event(type) ==
  [type |-> type, activityId |-> "", activityType |-> "", scheduledEventId |-> 0,
   result |-> "", reason |-> "", executionContext |-> <<>>, input |-> <<>>]

WorkflowExecutionStarted(input) ==
  [Event("WorkflowExecutionStarted") EXCEPT !.input = <<input>>]

DecisionTaskStarted == Event("DecisionTaskStarted")

DecisionTaskCompleted(context) ==
  [Event("DecisionTaskCompleted") EXCEPT !.executionContext = context]

ActivityTaskScheduled(activityId, name) ==
  [Event("ActivityTaskScheduled") EXCEPT !.activityId = activityId,
                                         !.activityType = name]

ActivityTaskCompleted(e, raw) ==
  [Event("ActivityTaskCompleted") EXCEPT !.scheduledEventId = e, !.result = raw]

ActivityTaskFailed(e, reason) ==
  [Event("ActivityTaskFailed") EXCEPT !.scheduledEventId = e, !.reason = reason]

ActivityTaskTimedOut(e) ==
  [Event("ActivityTaskTimedOut") EXCEPT !.scheduledEventId = e]

(***************************************************************************)
(* WorkflowResponse: the projected state of one decision task              *)
(* (flowy/client.py).                                                      *)
(***************************************************************************)
\* the fields WorkflowResponse.__init__ sets before anything is restored
EmptyState ==
  [event_to_call_id |-> <<>>, retries |-> <<>>, scheduled |-> {}, results |-> <<>>,
   timed_out |-> {}, with_errors |-> <<>>, input |-> <<>>]

\* d[key] = value
SetItem(d, key, value) == (key :> value) @@ d

\* json.dumps of a dict with integer keys: the keys become strings
DumpKeys(d) == [t \in {ToStr(key) : key \in DOMAIN d} |-> d[ToInt(t)]]

\* WorkflowResponse._fix_keys
_fix_keys(d) == [key \in {ToInt(t) : t \in DOMAIN d} |-> d[ToStr(key)]]

\* list(a_set): a set of small integers is listed in ascending order
RECURSIVE ListOfSet(_)
ListOfSet(s) ==
  IF s = {} THEN <<>>
  ELSE LET least == CHOOSE x \in s : \A y \in s : x <= y
       IN <<least>> \o ListOfSet(s \ {least})

\* a set(a_list) that keeps the first member only
SetOfList_first(l) == IF l = <<>> THEN {} ELSE {l[1]}

\* set(a_list)
SetOfList(l) == {l[i] : i \in DOMAIN l}

\* WorkflowResponse._serialize_context
_serialize_context(st) ==
  [event_to_call_id |-> DumpKeys(st.event_to_call_id),
   retries |-> DumpKeys(st.retries),
   scheduled |-> ListOfSet(st.scheduled),
   results |-> DumpKeys(st.results),
   timed_out |-> ListOfSet(st.timed_out),
   with_errors |-> DumpKeys(st.with_errors),
   input |-> st.input]

\* a _restore_context that does not take with_errors from the context
_restore_context_sans_errors(st, context) ==
  IF context = <<>> THEN st
  ELSE LET initial_state == context[1] IN
       [event_to_call_id |-> _fix_keys(initial_state.event_to_call_id),
        retries |-> _fix_keys(initial_state.retries),
        scheduled |-> SetOfList(initial_state.scheduled),
        results |-> _fix_keys(initial_state.results),
        timed_out |-> SetOfList(initial_state.timed_out),
        with_errors |-> <<>>,
        input |-> initial_state.input]

\* WorkflowResponse._restore_context, context being <<>> (None) or <<json>>
_restore_context(st, context) ==
  IF context = <<>> THEN st
  ELSE LET initial_state == context[1] IN
       [event_to_call_id |-> _fix_keys(initial_state.event_to_call_id),
        retries |-> _fix_keys(initial_state.retries),
        scheduled |-> SetOfList(initial_state.scheduled),
        results |-> _fix_keys(initial_state.results),
        timed_out |-> SetOfList(initial_state.timed_out),
        with_errors |-> _fix_keys(initial_state.with_errors),
        input |-> initial_state.input]

_ActivityTaskScheduled(st, event_id, event) ==
  LET call_id == ToInt(event.activityId) IN
  [st EXCEPT !.event_to_call_id = SetItem(@, event_id, call_id),
             !.scheduled = @ \cup {call_id},
             !.timed_out = @ \ {call_id}]

_ActivityTaskCompleted(st, event) ==
  LET call_id == st.event_to_call_id[event.scheduledEventId] IN
  [st EXCEPT !.scheduled = @ \ {call_id},
             !.results = SetItem(@, call_id, event.result)]

_ActivityTaskFailed(st, event) ==
  LET call_id == st.event_to_call_id[event.scheduledEventId] IN
  [st EXCEPT !.with_errors = SetItem(@, call_id, event.reason)]

_ActivityTaskTimedOut(st, event) ==
  LET call_id == st.event_to_call_id[event.scheduledEventId] IN
  [st EXCEPT !.scheduled = @ \ {call_id},
             !.timed_out = @ \cup {call_id},
             !.retries = SetItem(@, call_id, @[call_id] - 1)]

_WorkflowExecutionStarted(st, event) == [st EXCEPT !.input = event.input]

\* getattr(self, '_%s' % event_type, lambda x: 0)(new_event)
ApplyEvent(st, event_id, event) ==
  CASE event.type = "ActivityTaskScheduled" -> _ActivityTaskScheduled(st, event_id, event)
    [] event.type = "ActivityTaskCompleted" -> _ActivityTaskCompleted(st, event)
    [] event.type = "ActivityTaskFailed" -> _ActivityTaskFailed(st, event)
    [] event.type = "ActivityTaskTimedOut" -> _ActivityTaskTimedOut(st, event)
    [] event.type = "WorkflowExecutionStarted" -> _WorkflowExecutionStarted(st, event)
    [] OTHER -> st

\* WorkflowResponse._new_events: the history is read newest first, up to the
\* event whose id is previousStartedEventId; the ids are given back oldest first
RECURSIVE NewEventIds(_, _)
NewEventIds(newest, prev_id) ==
  IF newest = 0 \/ (prev_id # 0 /\ newest = prev_id) THEN <<>>
  ELSE Append(NewEventIds(newest - 1, prev_id), newest)

_new_events(task) == NewEventIds(task.last, task.previousStartedEventId)

\* WorkflowResponse._context: the context of the first DecisionTaskCompleted
\* among the new events, None when there is none
_context(history, task) ==
  LET ids == _new_events(task)
      dtc == {i \in DOMAIN ids : history[ids[i]].type = "DecisionTaskCompleted"}
  IN IF dtc = {} THEN <<>>
     ELSE history[ids[CHOOSE i \in dtc : \A j \in dtc : i <= j]].executionContext

\* the loop over the new events; each state is bound as a value before the
\* next event is applied to it
RECURSIVE FoldEvents(_, _, _, _)
FoldEvents(st, history, ids, i) ==
  IF i > Len(ids) THEN st
  ELSE CHOOSE folded \in {FoldEvents(applied, history, ids, i + 1) :
                             applied \in {ApplyEvent(st, ids[i], history[ids[i]])}} : TRUE

\* the fields of the projected state that the events of a history determine
Projected(st) ==
  [event_to_call_id |-> st.event_to_call_id, scheduled |-> st.scheduled,
   results |-> st.results, timed_out |-> st.timed_out,
   with_errors |-> st.with_errors, input |-> st.input]

\* the loop of WorkflowResponse.__init__ over every event up to the one
\* numbered last, from the state no context was restored into; retries,
\* which queue_activity and not the events set, has an entry for every call
FoldWholeHistory(history, last) ==
  FoldEvents([EmptyState EXCEPT !.retries = [call_id \in 0..MaxInt |-> 0]],
             history, NewEventIds(last, 0), 1)

\* WorkflowResponse.__init__: restore the context, then apply the new events
WorkflowResponse(history, task) ==
  FoldEvents(_restore_context(EmptyState, _context(history, task)),
             history, _new_events(task), 1)

(***************************************************************************)
(* Workflow and ActivityProxy (pyswf/workflow.py).  A run of the workflow  *)
(* function is a record: env (the local variables), the runner's fields    *)
(* (current_call_id, options_stack, error_handling_stack), scheduled (the  *)
(* list resume hands back), how the run ended, and two records kept for    *)
(* the properties: lex (the error_handling of the with blocks open in the  *)
(* program text) and calls (what each proxied call did).                   *)
(***************************************************************************)
\* Workflow.__init__
NewRunner ==
  [current_call_id |-> 0, options_stack |-> <<NoOptions>>,
   error_handling_stack |-> <<FALSE>>]

Last(seq) == seq[Len(seq)]

Front(seq) == SubSeq(seq, 1, Len(seq) - 1)

\* Workflow._current_options
_current_options(run) == Last(run.options_stack)

\* Workflow._manual_exception_handling
_manual_exception_handling(run) == Last(run.error_handling_stack)

\* the run stops with an exception (or, for "return", with a value)
Stop(run, how, v, msg) == [run EXCEPT !.end = how, !.result = v, !.msg = msg]

\* Workflow.options, entering the with block
options_enter(run, error_handling, heartbeat) ==
  [run EXCEPT
     !.error_handling_stack =
        IF error_handling # <<>> THEN Append(@, error_handling[1]) ELSE @,
     !.options_stack = Append(@, update_with(_current_options(run), Heartbeat(heartbeat))),
     !.lex = Append(@, IF error_handling # <<>> THEN error_handling[1] ELSE Last(@)),
     !.open = Append(@, error_handling # <<>>)]

\* Workflow.options, after the yield: runs when the block ends normally
options_exit(run) ==
  [run EXCEPT
     !.options_stack = Front(@),
     !.error_handling_stack = IF Last(run.open) THEN Front(@) ELSE @,
     !.lex = Front(@),
     !.open = Front(@)]

\* return inside with blocks: every open block is left normally
RECURSIVE Return(_, _)
Return(run, v) ==
  IF run.open = <<>> THEN Stop(run, "return", v, "") ELSE Return(options_exit(run), v)

\* list(kwargs.items()): a list of (key, value) tuples
Items(kwargs) == [i \in DOMAIN kwargs |-> Tuple2]

\* ActivityProxy.has_placeholders
has_placeholders(args, kwargs) ==
  LET a == args \o Items(kwargs)
  IN \E i \in DOMAIN a : IsMaybeResult(a[i]) /\ is_placeholder(a[i])

\* ActivityProxy.get_args_error: the first MaybeResult whose result() raises
\* decides: SyncNeeded goes through, ActivityError gives its message
get_args_error(args, kwargs) ==
  LET a == args \o Items(kwargs)
      raising == {i \in DOMAIN a : IsMaybeResult(a[i]) /\ result(a[i]).how # "value"}
  IN IF raising = {} THEN [how |-> "value", msg |-> ""]
     ELSE LET first == CHOOSE i \in raising : \A j \in raising : i <= j
          IN [how |-> result(a[first]).how, msg |-> result(a[first]).msg]

\* ActivityProxy.serialize_activity_input: json.dumps raises TypeError on a
\* MaybeResult
serialize_activity_input(args, kwargs) ==
  IF \E i \in DOMAIN args : args[i].k # "V" THEN <<>>
  ELSE IF \E i \in DOMAIN kwargs : kwargs[i].k # "V" THEN <<>>
  ELSE <<[args |-> [i \in DOMAIN args |-> JsonDumps(args[i].r)],
          kwargs |-> [i \in DOMAIN kwargs |-> JsonDumps(kwargs[i].r)]]>>

\* ActivityProxy.deserialize_activity_result
deserialize_activity_result(raw) == JsonLoads(raw)

\* a _queue_activity that puts the call at the head of the list
_queue_activity_first(run, call_id, name, version, input, heartbeat, retry) ==
  LET options == update_with(Heartbeat(heartbeat), _current_options(run))
  IN [run EXCEPT !.scheduled =
        <<[call_id |-> call_id, name |-> name, version |-> version,
           input |-> input, options |-> options, retry |-> retry]>> \o @]

\* Workflow._queue_activity; retry is the options.retry that
\* WorkflowClient.start reads from the call
_queue_activity(run, call_id, name, version, input, heartbeat, retry) ==
  LET options == update_with(Heartbeat(heartbeat), _current_options(run))
  IN [run EXCEPT !.scheduled =
        Append(@, [call_id |-> call_id, name |-> name, version |-> version,
                   input |-> input, options |-> options, retry |-> retry])]

\* the errors among the arguments, positional first, then the keyword values
ArgReasons(args, kwargs) ==
  LET a == args \o kwargs
      RECURSIVE Collect(_)
      Collect(i) == IF i > Len(a) THEN <<>>
                    ELSE IF a[i].k = "E" THEN <<a[i].r.s>> \o Collect(i + 1)
                    ELSE Collect(i + 1)
  IN Collect(1)

\* what a call did, for the properties
CallRecord(run, pc, call_id, args, kwargs, context, out, reason) ==
  [site |-> pc, call_id |-> call_id, lex |-> Last(run.lex),
   arg_reasons |-> ArgReasons(args, kwargs),
   arg_placeholder |-> \E i \in DOMAIN (args \o kwargs) : (args \o kwargs)[i].k = "P",
   had_result |-> call_id \in DOMAIN context.results,
   had_error |-> call_id \in DOMAIN context.with_errors,
   was_scheduled |-> call_id \in context.scheduled,
   out |-> out, reason |-> reason]

Logged(run, rec) == [run EXCEPT !.calls = Append(@, rec)]

\* ActivityProxy.make_proxy.proxy
proxy(run0, pc, stmt, args, kwargs, context) ==
  LET call_id == run0.current_call_id
      run == [run0 EXCEPT !.current_call_id = @ + 1]
      rec(out, reason) == CallRecord(run, pc, call_id, args, kwargs, context, out, reason)
      has_result == call_id \in DOMAIN context.results
      has_error == call_id \in DOMAIN context.with_errors
  IN IF ~has_result /\ ~has_error THEN
       LET args_error == get_args_error(args, kwargs) IN
       IF args_error.how = "SyncNeeded" THEN
         Stop(Logged(run, rec("SyncNeeded", "")), "SyncNeeded", PyNone, "")
       ELSE IF args_error.how = "ActivityError" /\ args_error.msg # "" THEN
         LET m == "Error when calling activity: " \o args_error.msg
         IN Stop(Logged(run, rec("UnhandledActivityError", m)),
                 "UnhandledActivityError", PyNone, m)
       ELSE IF ~has_placeholders(args, kwargs) /\ call_id \notin context.scheduled THEN
         LET input == serialize_activity_input(args, kwargs) IN
         IF input = <<>> THEN
           Stop(Logged(run, rec("TypeError", "TypeError")), "Exception", PyNone, "TypeError")
         ELSE
           [Logged(_queue_activity(run, call_id, stmt.act, 1, input[1], stmt.hb, stmt.retry),
                   rec("queued", ""))
              EXCEPT !.env[stmt.dst] = Placeholder]
       ELSE [Logged(run, rec("placeholder", "")) EXCEPT !.env[stmt.dst] = Placeholder]
     ELSE IF has_error THEN
       LET error == context.with_errors[call_id] IN
       IF _manual_exception_handling(run) THEN
         [Logged(run, rec("Error", error)) EXCEPT !.env[stmt.dst] = MError(error)]
       ELSE Stop(Logged(run, rec("UnhandledActivityError", error)),
                 "UnhandledActivityError", PyNone, error)
     ELSE [Logged(run, rec("Result", "")) EXCEPT
             !.env[stmt.dst] = MResult(deserialize_activity_result(context.results[call_id]))]

\* the value of one argument expression (x, x.result(), a literal, an input)
ArgValue(arg, run, input) ==
  CASE arg.a = "lit" -> Plain(PyInt(arg.n))
    [] arg.a = "in" -> Plain(input[arg.n])
    [] arg.a = "res" -> Plain(run.env[arg.n].r)
    [] OTHER -> run.env[arg.n]

\* the first argument expression x.result() that raises, 0 when none does
FirstRaising(exprs, run) ==
  LET bad == {i \in DOMAIN exprs :
                exprs[i].a = "res" /\ result(run.env[exprs[i].n]).how # "value"}
  IN IF bad = {} THEN 0 ELSE CHOOSE i \in bad : \A j \in bad : i <= j

\* a result() in the workflow code after which _SyncNeeded is taken for any
\* other exception
Raise_as_error(run, r) ==
  [Stop(run, "Exception", PyNone, r.msg) EXCEPT !.deref = (r.how = "SyncNeeded")]

\* an exception that a result() in the workflow code raises and run() lets
\* through, as WorkflowClient.start sees it; deref records that the workflow
\* code dereferenced an unresolved value
Raise(run, r) ==
  IF r.how = "SyncNeeded"
  THEN [Stop(run, "SyncNeeded", PyNone, "") EXCEPT !.deref = TRUE]
  ELSE Stop(run, "Exception", PyNone, r.msg)

\* one statement of the workflow function
Statement(run, pc, stmt, input, context) ==
  CASE stmt.op = "call" ->
         LET exprs == stmt.args \o stmt.kw
             bad == FirstRaising(exprs, run)
         IN IF bad # 0 THEN Raise(run, result(run.env[exprs[bad].n]))
            ELSE proxy(run, pc, stmt,
                       [i \in DOMAIN stmt.args |-> ArgValue(stmt.args[i], run, input)],
                       [i \in DOMAIN stmt.kw |-> ArgValue(stmt.kw[i], run, input)],
                       context)
    [] stmt.op = "with" -> options_enter(run, stmt.eh, stmt.hb)
    [] stmt.op = "endwith" -> options_exit(run)
    [] stmt.op = "deref" ->
         LET r == result(run.env[stmt.src])
         IN IF r.how = "value" THEN run ELSE Raise(run, r)
    [] stmt.op = "ret" ->
         LET r == result(run.env[stmt.src])
         IN IF r.how = "value" THEN Return(run, r.v) ELSE Raise(run, r)
    [] OTHER ->
         LET r == result(run.env[stmt.src])
         IN IF r.how = "value" THEN Return(run, r.v)
            ELSE IF r.how = "ActivityError" THEN Return(run, PyStr(stmt.handled))
            ELSE Raise(run, r)

\* Workflow.run: the statements in order, until one returns or raises; the
\* run after a statement is bound as a value before the next one reads it
RECURSIVE run_from(_, _, _, _, _)
run_from(run, program, pc, input, context) ==
  IF run.end # "running" THEN run
  ELSE IF pc > Len(program) THEN Return(run, PyNone)
  ELSE CHOOSE done \in {run_from(ran, program, pc + 1, input, context) :
                           ran \in {Statement([run EXCEPT !.pc = pc], pc, program[pc],
                                               input, context)}} : TRUE

\* Workflow.resume: what it leaves in the runner and what it hands back.
\* The counter is reset after the try statement, so only when run() returned
\* or raised _SyncNeeded.
resume(runner, program, input, context) ==
  LET start == [env |-> [v \in 1..NVars |-> Plain(PyNone)],
                current_call_id |-> runner.current_call_id,
                options_stack |-> runner.options_stack,
                error_handling_stack |-> runner.error_handling_stack,
                scheduled |-> <<>>, lex |-> <<FALSE>>, open |-> <<>>, calls |-> <<>>,
                end |-> "running", result |-> PyNone, msg |-> "",
                pc |-> 0, deref |-> FALSE]
      handed(done) ==
        [runner |-> [current_call_id |->
                       IF done.end \in {"return", "SyncNeeded"} THEN 0
                       ELSE done.current_call_id,
                     options_stack |-> done.options_stack,
                     error_handling_stack |-> done.error_handling_stack],
         end |-> done.end,
         result |-> serialize_workflow_result(done.result),
         msg |-> done.msg,
         activities |-> done.scheduled,
         calls |-> done.calls,
         stopped |-> done.pc,
         deref |-> done.deref]
  IN CHOOSE back \in {handed(done) :
                        done \in {run_from(start, program, 1,
                                            deserialize_workflow_input(input), context)}} : TRUE

(***************************************************************************)
(* The argument-dependency layer: ArgsDependencyScheduler                  *)
(* (flowy/scheduler.py) and ArgsDependencyRuntime (flowy/runtime.py).      *)
(* Arguments are Placeholder, Result and Error objects (k = "P", "R",      *)
(* "E") or plain values.  A call ends in a record: ret is what the caller  *)
(* gets back (<<>> when the layer below decides), failed the reason given  *)
(* to fail(), forwarded the raw arguments handed on to be serialized and   *)
(* scheduled.                                                              *)
(***************************************************************************)
NoOutcome == [ret |-> <<>>, failed |-> <<>>, forwarded |-> <<>>]

\* "\n".join(reasons)
RECURSIVE Join(_)
Join(reasons) ==
  IF reasons = <<>> THEN ""
  ELSE IF Len(reasons) = 1 THEN reasons[1]
  ELSE reasons[1] \o "\n" \o Join(Tail(reasons))

\* _deps_in_args
_deps_in_args(a) == \E i \in DOMAIN a : a[i].k = "P"

\* _errs_in_args
_errs_in_args(a) == SelectSeq(a, LAMBDA x : x.k = "E")

\* the part of _args_based_result both classes share, on the flattened
\* arguments; <<>> stands for the None that lets the call go on
args_based_result(a, error_handling) ==
  IF _deps_in_args(a) THEN [NoOutcome EXCEPT !.ret = <<Placeholder>>]
  ELSE LET errs == _errs_in_args(a) IN
       IF errs # <<>> THEN
         LET composed_err == Join([i \in DOMAIN errs |-> errs[i].r.s]) IN
         IF error_handling THEN [NoOutcome EXCEPT !.ret = <<MError(composed_err)>>]
         ELSE [NoOutcome EXCEPT !.ret = <<Placeholder>>, !.failed = <<composed_err>>]
       ELSE NoOutcome

\* ArgsDependencyScheduler._args_based_result: args + kwargs.values()
Scheduler_args_based_result(args, kwargs, error_handling) ==
  args_based_result(args \o kwargs, error_handling)

\* ArgsDependencyRuntime._args_based_result: args + kwargs.items()
Runtime_args_based_result(args, kwargs, error_handling) ==
  args_based_result(args \o Items(kwargs), error_handling)

\* _serialize_args: the raw arguments given to args_serializer
_serialize_args(args, kwargs) ==
  LET raw(x) == IF x.k = "R" THEN Plain(x.r) ELSE x
  IN [args |-> [i \in DOMAIN args |-> raw(args[i])],
      kwargs |-> [i \in DOMAIN kwargs |-> raw(kwargs[i])]]

\* ArgsDependencyScheduler.remote_activity
Scheduler_remote_activity(args, kwargs, error_handling) ==
  LET based == Scheduler_args_based_result(args, kwargs, error_handling)
  IN IF based.ret # <<>> THEN based
     ELSE [NoOutcome EXCEPT !.forwarded = <<_serialize_args(args, kwargs)>>]

\* ArgsDependencyRuntime.remote_activity
Runtime_remote_activity(args, kwargs, error_handling) ==
  LET based == Runtime_args_based_result(args, kwargs, error_handling)
  IN IF based.ret # <<>> THEN based
     ELSE [NoOutcome EXCEPT !.forwarded = <<_serialize_args(args, kwargs)>>]

(***************************************************************************)
(* SWFClient and WorkflowClient.start (flowy/client.py).                   *)
(***************************************************************************)
\* SWFClient.queue_activity: the entry appended to _scheduled_activities
SWFClient_queue_activity(a) ==
  [activityId |-> ToStr(a.call_id), name |-> a.name, version |-> ToStr(a.version),
   heartbeat_timeout |-> StrOrNone(a.options[1]),
   schedule_to_close_timeout |-> StrOrNone(a.options[2]),
   schedule_to_start_timeout |-> StrOrNone(a.options[3]),
   start_to_close_timeout |-> StrOrNone(a.options[4]),
   task_list |-> a.options[5],
   input |-> a.input]

\* self._retries.setdefault(call_id, retries + 1)
SetDefault(d, key, value) == IF key \in DOMAIN d THEN d ELSE SetItem(d, key, value)

\* a queue_activity that sets the counter anew each time the call is queued
queue_activity_reset(st, a) == [st EXCEPT !.retries = SetItem(@, a.call_id, a.retry + 1)]

\* a queue_activity that starts the counter at retries, not retries + 1
queue_activity_exact(st, a) == [st EXCEPT !.retries = SetDefault(@, a.call_id, a.retry)]

\* WorkflowResponse.queue_activity, on the projected state
queue_activity(st, a) == [st EXCEPT !.retries = SetDefault(@, a.call_id, a.retry + 1)]

RECURSIVE QueueAll(_, _, _)
QueueAll(st, activities, i) ==
  IF i > Len(activities) THEN st
  ELSE QueueAll(queue_activity(st, activities[i]), activities, i + 1)

\* an any_activity_running that never sees a scheduled call
any_activity_running_never(st) == FALSE

\* WorkflowResponse.any_activity_running
any_activity_running(st) == st.scheduled # {}

\* a schedule_activities that empties the list only when the reply was sent
SWFClient_schedule_activities_keep(queued, accepted) ==
  IF accepted THEN <<>> ELSE queued

\* SWFClient.schedule_activities: what _scheduled_activities is afterwards,
\* whether respond_decision_task_completed raised SWFResponseError or not
SWFClient_schedule_activities(queued, accepted) == <<>>

NoReply ==
  [kind |-> "none", decisions |-> <<>>, context |-> <<>>, result |-> "", reason |-> ""]

\* a loop body that completes whenever the turn queued nothing
start_reply_unless_queued(st, r) ==
  IF r.end \in {"UnhandledActivityError", "Exception"}
  THEN [NoReply EXCEPT !.kind = "terminate", !.reason = r.msg]
  ELSE IF r.activities # <<>>
  THEN [NoReply EXCEPT
          !.kind = "schedule",
          !.decisions = [i \in DOMAIN r.activities |-> SWFClient_queue_activity(r.activities[i])],
          !.context = <<_serialize_context(QueueAll(st, r.activities, 1))>>]
  ELSE [NoReply EXCEPT !.kind = "complete", !.result = r.result]

\* the body of the loop of WorkflowClient.start after resume: what is sent
start_reply(st, r) ==
  IF r.end \in {"UnhandledActivityError", "Exception"}
  THEN [NoReply EXCEPT !.kind = "terminate", !.reason = r.msg]
  ELSE IF any_activity_running(st) \/ r.activities # <<>>
  THEN [NoReply EXCEPT
          !.kind = "schedule",
          !.decisions = [i \in DOMAIN r.activities |-> SWFClient_queue_activity(r.activities[i])],
          !.context = <<_serialize_context(QueueAll(st, r.activities, 1))>>]
  ELSE [NoReply EXCEPT !.kind = "complete", !.result = r.result]

(***************************************************************************)
(* OptionsScheduler (flowy/scheduler.py).  A dict of options is a record   *)
(* over every option name: <<>> when the key is absent, <<v>> when it is   *)
(* there with value v.  A timeout or a task list is itself <<>> (None) or  *)
(* <<n>>; retry and delay are integers; error_handling is a boolean.       *)
(***************************************************************************)
ActivityFields ==
  {"heartbeat", "schedule_to_close", "schedule_to_start", "start_to_close",
   "task_list", "retry", "delay", "error_handling"}

SubworkflowFields ==
  {"workflow_duration", "decision_duration", "task_list", "retry", "delay",
   "error_handling"}

OptionFields == ActivityFields \cup SubworkflowFields

TimeoutFields == OptionFields \ {"task_list", "retry", "delay", "error_handling"}

\* dict()
EmptyDict == [f \in OptionFields |-> <<>>]

\* dict(d, **other), d.update(other)
DictUpdate(d, other) == [f \in OptionFields |-> IF other[f] # <<>> THEN other[f] ELSE d[f]]

\* posint_or_none: None, or the integer made non-negative
posint_or_none(o) == IF o = <<>> THEN <<>> ELSE <<IF o[1] > 0 THEN o[1] ELSE 0>>

\* posint: the integer made non-negative
posint(n) == IF n > 0 THEN n ELSE 0

DefaultDelay == 0

\* the keyword defaults of remote_activity
DefaultOption(f) ==
  CASE f = "retry" -> DefaultRetry
    [] f = "delay" -> DefaultDelay
    [] f = "error_handling" -> FALSE
    [] OTHER -> <<>>

\* the conversion remote_activity applies to the value given for a field
SiteValue(f, raw) ==
  CASE f \in TimeoutFields -> posint_or_none(raw)
    [] f = "task_list" -> StrOrNone(raw)
    [] f \in {"retry", "delay"} -> posint(raw)
    [] OTHER -> raw

\* the conversion options() applies to the value given for a field
ScopeValue(f, raw) ==
  CASE f \in TimeoutFields -> posint_or_none(raw)
    [] f = "task_list" -> StrOrNone(raw)
    [] f \in {"retry", "delay"} -> IF raw > 0 THEN raw ELSE 0
    [] OTHER -> raw

\* OptionsScheduler.options: the a_options and s_options of the keywords given
a_options(kwargs) ==
  [f \in OptionFields |->
     IF f \in ActivityFields /\ kwargs[f] # <<>> THEN <<ScopeValue(f, kwargs[f][1])>>
     ELSE <<>>]

s_options(kwargs) ==
  [f \in OptionFields |->
     IF f \in SubworkflowFields /\ kwargs[f] # <<>> THEN <<ScopeValue(f, kwargs[f][1])>>
     ELSE <<>>]

\* OptionsScheduler.remote_activity: the options handed to the scheduler below
OptionsScheduler_remote_activity(activity_options_stack, kwargs) ==
  LET options ==
        [f \in OptionFields |->
           IF f \in ActivityFields
           THEN <<SiteValue(f, IF kwargs[f] # <<>> THEN kwargs[f][1] ELSE DefaultOption(f))>>
           ELSE <<>>]
  IN DictUpdate(options, Last(activity_options_stack))

\* OptionsScheduler.remote_subworkflow: the options handed to the scheduler
\* below; the defaults of retry, delay and error_handling are those of
\* remote_activity
OptionsScheduler_remote_subworkflow(subworkflow_options_stack, kwargs) ==
  LET options ==
        [f \in OptionFields |->
           IF f \in SubworkflowFields
           THEN <<SiteValue(f, IF kwargs[f] # <<>> THEN kwargs[f][1]
                               ELSE DefaultOption(f))>>
           ELSE <<>>]
  IN DictUpdate(options, Last(subworkflow_options_stack))

(***************************************************************************)
(* OptionsRuntime (flowy/runtime.py), with the same dicts.                 *)
(***************************************************************************)
\* int_or_none: None, or int() of the integer
int_or_none(o) == IF o = <<>> THEN <<>> ELSE <<o[1]>>

\* the conversion OptionsRuntime applies to the value given for a field, at
\* a call and in options() alike
RuntimeValue(f, raw) ==
  CASE f \in TimeoutFields -> int_or_none(raw)
    [] f = "task_list" -> StrOrNone(raw)
    [] f \in {"retry", "delay"} -> IF raw > 0 THEN raw ELSE 0
    [] OTHER -> raw

\* OptionsRuntime.options: the a_options of the keywords given; both stacks
\* are appended dict(stack[-1], **a_options), s_options is built and not used
Runtime_a_options(kwargs) ==
  [f \in OptionFields |->
     IF f \in ActivityFields /\ kwargs[f] # <<>> THEN <<RuntimeValue(f, kwargs[f][1])>>
     ELSE <<>>]

\* OptionsRuntime.remote_activity: the options handed to the runtime below
OptionsRuntime_remote_activity(activity_options_stack, kwargs) ==
  LET options ==
        [f \in OptionFields |->
           IF f \in ActivityFields
           THEN <<RuntimeValue(f, IF kwargs[f] # <<>> THEN kwargs[f][1] ELSE DefaultOption(f))>>
           ELSE <<>>]
  IN DictUpdate(options, Last(activity_options_stack))

\* OptionsRuntime.remote_subworkflow: the options handed to the runtime below
OptionsRuntime_remote_subworkflow(subworkflow_options_stack, kwargs) ==
  LET options ==
        [f \in OptionFields |->
           IF f \in SubworkflowFields
           THEN <<RuntimeValue(f, IF kwargs[f] # <<>> THEN kwargs[f][1]
                                  ELSE DefaultOption(f))>>
           ELSE <<>>]
  IN DictUpdate(options, Last(subworkflow_options_stack))

\* OptionsScheduler.__init__ (OptionsRuntime.__init__ is the same); class is
\* the class of the layer, open lists the keywords of the with blocks the
\* workflow code is inside of, call is the last remote call (its kind, the
\* blocks it was made in, the options handed on, what the layer below gave
\* back and what the call returned to the workflow code)
NoScheduler ==
  [class |-> "OptionsScheduler",
   activity_options_stack |-> <<EmptyDict>>,
   subworkflow_options_stack |-> <<EmptyDict>>,
   open |-> <<>>,
   call |-> [made |-> FALSE, kind |-> "none", kwargs |-> EmptyDict,
             passed |-> EmptyDict, open |-> <<>>,
             inner |-> Placeholder, returned |-> Plain(PyNone)]]

\* what the layer a call is forwarded to gives back: ArgsDependencyScheduler
\* and ArgsDependencyRuntime return a Placeholder, an Error or what the
\* layer below them returns, a Placeholder, a Result or an Error
ForwardedOutcomes == {Placeholder, MResult(PyInt(10)), MError("boom")}

\* what remote_activity and remote_subworkflow of OptionsScheduler and of
\* OptionsRuntime return: the forwarding call is an expression statement,
\* the last of the method, so the method returns None
Options_remote_call(inner) == Plain(PyNone)

(***************************************************************************)
(* The start of a worker and the intake of a polled task (flowy/client.py: *)
(* SWFClient.register_workflow and register_activity, the start of         *)
(* WorkflowClient and ActivityClient, WorkflowResponse.__init__).          *)
(***************************************************************************)
\* the most types one worker registers
MaxTypes == 2

\* the most events between the first and the newest event of a polled history
MaxWindow == 2

\* the defaults a worker registers a type with, as the strings sent; of
\* register_workflow: execution_start_to_close, task_start_to_close, the task
\* list of the client, child_policy; of register_activity: start_to_close,
\* schedule_to_start, schedule_to_close, heartbeat, the task list
Defaults(class) ==
  IF class = "WorkflowClient" THEN <<"3600", "60", "tl", "TERMINATE">>
  ELSE <<"300", "120", "420", "60", "tl">>

\* what the service may hold for a type: <<>> when it does not know the
\* type, else <<configuration>>, the configuration being the defaults of the
\* worker or the same with one of them different
Registry(class) ==
  {<<>>, <<Defaults(class)>>} \cup
  {<<[Defaults(class) EXCEPT ![i] = "1"]>> : i \in DOMAIN Defaults(class)}

\* SWFClient.register_workflow against what the service holds: exits says
\* that sys.exit(1) was called, returns is the value handed back otherwise
register_workflow(registered) ==
  IF registered = <<>> THEN [exits |-> FALSE, returns |-> PyNone]
  ELSE LET conf == registered[1]
           sent == Defaults("WorkflowClient")
       IN IF conf[1] # sent[1] \/ conf[2] # sent[2] \/ conf[3] # sent[3]
             \/ conf[4] # sent[4]
          THEN [exits |-> TRUE, returns |-> PyNone]
          ELSE [exits |-> FALSE, returns |-> PyNone]

\* SWFClient.register_activity against what the service holds
register_activity(registered) ==
  IF registered = <<>> THEN [exits |-> FALSE, returns |-> PyNone]
  ELSE LET conf == registered[1]
           sent == Defaults("ActivityClient")
       IN IF conf[1] # sent[1] \/ conf[2] # sent[2] \/ conf[3] # sent[3]
             \/ conf[4] # sent[4] \/ conf[5] # sent[5]
          THEN [exits |-> TRUE, returns |-> PyNone]
          ELSE [exits |-> FALSE, returns |-> PyNone]

\* one pass of the for loop of start, "if not client.register_...(*args):
\* sys.exit(1)": the function in which the worker exits, "" when it goes on;
\* not x is true of None, of 0 and of the empty string
register_pass(class, registered) ==
  LET r == IF class = "WorkflowClient" THEN register_workflow(registered)
           ELSE register_activity(registered)
      truth == CASE r.returns.ty = "none" -> FALSE
                 [] r.returns.ty = "int" -> r.returns.i # 0
                 [] OTHER -> r.returns.s # ""
  IN IF r.exits
     THEN (IF class = "WorkflowClient" THEN "register_workflow" ELSE "register_activity")
     ELSE IF ~truth THEN "start" ELSE ""

\* the keys _restore_context reads from the context; the text of a context
\* is a record: whether json.loads parses it, and the keys of the object
ContextFields ==
  {"event_to_call_id", "retries", "scheduled", "results", "timed_out",
   "with_errors", "input"}

\* a _new_events that does not count the DecisionTaskCompleted events
decisions_completed_uncounted(history, task) == 0

\* WorkflowResponse._new_events: decisions_completed when the loop is left;
\* the event numbered previousStartedEventId is counted before the break
decisions_completed(history, task) ==
  LET ids == _new_events(task)
      seen == {ids[i] : i \in DOMAIN ids} \cup
              (IF task.previousStartedEventId \in 1..task.last
               THEN {task.previousStartedEventId} ELSE {})
  IN Cardinality({e \in seen : history[e].type = "DecisionTaskCompleted"})

\* a _restore_context that reads the context with initial_state.get(key)
_restore_context_raises_get(context) ==
  IF context = <<>> THEN ""
  ELSE IF ~context[1].parses THEN "ValueError"
  ELSE ""

\* WorkflowResponse._restore_context on the text of a context: the exception
\* json.loads or the lookup of a key raises, "" when every field is restored
_restore_context_raises(context) ==
  IF context = <<>> THEN ""
  ELSE IF ~context[1].parses THEN "ValueError"
  ELSE IF ContextFields \ context[1].keys # {} THEN "KeyError"
  ELSE ""

\* WorkflowResponse.__init__ on a polled task: how the construction ends
request_workflow(history, task) ==
  LET context == _context(history, task)
      ids == _new_events(task)
      started == \E i \in DOMAIN ids : history[ids[i]].type = "WorkflowExecutionStarted"
  IN IF decisions_completed(history, task) > 1
     THEN [raises |-> "AssertionError", in |-> "_new_events"]
     ELSE IF _restore_context_raises(context) # ""
     THEN [raises |-> "SystemExit", in |-> "_restore_context"]
     ELSE IF context = <<>> /\ ~started
     THEN [raises |-> "AssertionError", in |-> "__init__"]
     ELSE [raises |-> "", in |-> ""]

\* a _query that finds a runner for every name
_query_any(workflows, name) == <<name>>

\* WorkflowClient._query and ActivityClient._query: None (<<>>) or the runner
_query(workflows, name) == IF name \in workflows THEN <<name>> ELSE <<>>

\* a worker before start(client).  class: the client that is started;
\* registered: the names in _workflows or _activities; register_queue: what
\* the service holds for each type of the queue; next: the entry the for
\* loop is at; met: what the service held for the type registered last;
\* exit_in: the function the process ended in; pass: the last pass of the
\* while loop, with the context and the number of DecisionTaskCompleted
\* events among the new events of its task
NoWorker ==
  [class |-> "none", registered |-> {}, register_queue |-> <<>>, next |-> 1,
   phase |-> "none", exit_code |-> 0, exit_in |-> "", met |-> <<>>,
   pass |-> [polled |-> FALSE, history |-> <<>>,
             task |-> [last |-> 0, previousStartedEventId |-> 0], name |-> "",
             context |-> <<>>, completed |-> 0,
             raises |-> "", in |-> "", ran |-> FALSE, replied |-> FALSE]]

\* one pass of the while loop of WorkflowClient.start on a polled task
WorkflowClient_pass(workflows, history, task, name) ==
  LET response == request_workflow(history, task)
      ids == _new_events(task)
      made == [NoWorker.pass EXCEPT
                 !.polled = TRUE, !.history = history, !.task = task, !.name = name,
                 !.context = _context(history, task),
                 !.completed = Cardinality({i \in DOMAIN ids :
                                 history[ids[i]].type = "DecisionTaskCompleted"})]
  IN IF response.raises # ""
     THEN [made EXCEPT !.raises = response.raises, !.in = response.in]
     ELSE IF _query(workflows, name) = <<>> THEN made
     ELSE [made EXCEPT !.ran = TRUE, !.replied = TRUE]

(***************************************************************************)
(* The state: the server's side of the execution, the runner instance      *)
(* registered for the workflow, and a record of the last turn.             *)
(***************************************************************************)
VARIABLES
  workflow,                 \* the program of the registered runner
  runner,                   \* the Workflow instance: it serves every turn
  history,                  \* the events of the execution, oldest first
  previousStartedEventId,   \* of the next decision task
  task,                     \* the DecisionTaskStarted of the open task, or 0
  pending,                  \* the server owes the execution a decision task
  status,                   \* "open", "completed" or "terminated"
  attempts,                 \* replies to the open task that were not accepted
  turn,                     \* the last turn: state, calls, reply
  earlier,                  \* the reply of the earlier turn on the same task
  first_retry,              \* call_id -> the retry it was first scheduled with
  layer,                    \* the last call made to an argument-dependency layer
  optionsLayer,             \* an OptionsScheduler, its open scopes and its last call
  scheduled_activities,     \* SWFClient._scheduled_activities
  worker                    \* a worker from its start on: registration, polled tasks

vars ==
  <<workflow, runner, history, previousStartedEventId, task, pending, status,
    attempts, turn, earlier, first_retry, layer, optionsLayer,
    scheduled_activities, worker>>

NoTurn ==
  [task |-> 0, state |-> EmptyState, after |-> EmptyState, end |-> "none",
   calls |-> <<>>, reply |-> NoReply, accepted |-> FALSE, entered |-> 0,
   result |-> "", activities |-> <<>>, stopped |-> 0, deref |-> FALSE,
   previousStartedEventId |-> 0]

FirstHistory == <<WorkflowExecutionStarted(WorkflowInput)>>

NoCall ==
  [class |-> "none", args |-> <<>>, kwargs |-> <<>>, error_handling |-> FALSE,
   out |-> NoOutcome]

Init ==
  /\ workflow \in ProgramNames
  /\ runner = NewRunner
  /\ history = FirstHistory
  /\ previousStartedEventId = 0
  /\ task = 0
  /\ pending = TRUE
  /\ status = "open"
  /\ attempts = 0
  /\ turn = NoTurn
  /\ earlier = <<>>
  /\ first_retry = <<>>
  /\ layer = NoCall
  /\ optionsLayer = NoScheduler
  /\ scheduled_activities = <<>>
  /\ worker = NoWorker

\* the activity tasks that are scheduled and have no closing event yet
Outstanding ==
  {e \in DOMAIN history :
     /\ history[e].type = "ActivityTaskScheduled"
     /\ ~\E c \in DOMAIN history :
           /\ history[c].type \in {"ActivityTaskCompleted", "ActivityTaskFailed",
                                   "ActivityTaskTimedOut"}
           /\ history[c].scheduledEventId = e}

\* the results and the failure reasons the activities of a program produce
RawResults == IF workflow \in {"S1", "S3r"} THEN {"3", "10"} ELSE {"10"}

Reasons == IF workflow \in {"ErrOn", "ErrOff"} THEN {"a", "b"} ELSE {"boom"}

ServerRecords(event) ==
  /\ status = "open"
  /\ Len(history) < MaxEvents
  /\ history' = Append(history, event)
  /\ pending' = TRUE
  /\ UNCHANGED <<workflow, runner, previousStartedEventId, task, status, attempts,
                 turn, earlier, first_retry, layer, optionsLayer,
    scheduled_activities, worker>>

\* an activity worker completes a task
ActivityCompletes == \E e \in Outstanding, raw \in RawResults :
  ServerRecords(ActivityTaskCompleted(e, raw))

\* an activity worker fails a task
ActivityFails == \E e \in Outstanding, reason \in Reasons :
  ServerRecords(ActivityTaskFailed(e, reason))

\* the server times a task out
ActivityTimesOut == \E e \in Outstanding :
  ServerRecords(ActivityTaskTimedOut(e))

\* the server hands out a decision task (poll_for_decision_task returns)
StartDecisionTask ==
  /\ status = "open"
  /\ task = 0
  /\ pending
  /\ Len(history) < MaxEvents
  /\ history' = Append(history, DecisionTaskStarted)
  /\ task' = Len(history) + 1
  /\ pending' = FALSE
  /\ UNCHANGED <<workflow, runner, previousStartedEventId, status, attempts,
                 turn, earlier, first_retry, layer, optionsLayer,
    scheduled_activities, worker>>

\* the events the server records for an accepted schedule reply
RepliedEvents(reply) ==
  <<DecisionTaskCompleted(reply.context)>> \o
  [i \in DOMAIN reply.decisions |->
     ActivityTaskScheduled(reply.decisions[i].activityId, reply.decisions[i].name)]

RECURSIVE FirstRetries(_, _, _)
FirstRetries(fr, activities, i) ==
  IF i > Len(activities) THEN fr
  ELSE FirstRetries(SetDefault(fr, activities[i].call_id, activities[i].retry),
                    activities, i + 1)

\* one pass of the loop of WorkflowClient.start on the open decision task:
\* project the history, resume the runner, send the reply.  The server
\* accepts the reply, or the call fails with SWFResponseError and the task
\* is handed out again as it was.
Decide == \E accepted \in BOOLEAN :
  /\ status = "open"
  /\ task # 0
  /\ accepted \/ attempts + 1 < MaxAttempts
  /\ \E response \in {WorkflowResponse(history,
                         [last |-> task, previousStartedEventId |-> previousStartedEventId])} :
     \E r \in {resume(runner, Programs[workflow], response.input[1], response)} :
     \E made \in {start_reply(response, r)} :
       LET \* SWFClient.queue_activity appends to the list of the client, and
           \* schedule_activities sends a decision for each entry of the list
           queued == IF made.kind = "schedule" THEN scheduled_activities \o made.decisions
                     ELSE scheduled_activities
           reply == IF made.kind = "schedule" THEN [made EXCEPT !.decisions = queued]
                    ELSE made
           after == IF made.kind = "schedule" THEN QueueAll(response, r.activities, 1)
                    ELSE response
       IN /\ made.kind = "schedule" /\ accepted
               => Len(history) + 1 + Len(queued) <= MaxEvents
          /\ runner' = r.runner
          /\ turn' = [task |-> task, state |-> response, after |-> after, end |-> r.end,
                      calls |-> r.calls, reply |-> reply, accepted |-> accepted,
                      entered |-> runner.current_call_id,
                      result |-> r.result, activities |-> r.activities,
                      stopped |-> r.stopped, deref |-> r.deref,
                      previousStartedEventId |-> previousStartedEventId]
          /\ earlier' = IF attempts > 0 THEN <<turn.reply>> ELSE <<>>
          /\ scheduled_activities' =
               IF made.kind = "schedule"
               THEN SWFClient_schedule_activities(queued, accepted)
               ELSE queued
          /\ IF accepted
             THEN /\ attempts' = 0
                  /\ task' = 0
                  /\ previousStartedEventId' = task
                  /\ status' = CASE made.kind = "complete" -> "completed"
                                 [] made.kind = "terminate" -> "terminated"
                                 [] OTHER -> "open"
                  /\ history' = IF made.kind = "schedule"
                                THEN history \o RepliedEvents(reply) ELSE history
                  /\ first_retry' = IF made.kind = "schedule"
                                    THEN FirstRetries(first_retry, r.activities, 1)
                                    ELSE first_retry
             ELSE /\ attempts' = attempts + 1
                  /\ UNCHANGED <<task, previousStartedEventId, status, history,
                                 first_retry>>
  /\ UNCHANGED <<workflow, pending, layer, optionsLayer, worker>>

Next ==
  \/ ActivityCompletes
  \/ ActivityFails
  \/ ActivityTimesOut
  \/ StartDecisionTask
  \/ Decide

Spec == Init /\ [][Next]_vars

\* The loop of WorkflowClient.start never ends, so an open decision task is
\* served; the server hands out a decision task for new events; the activity
\* workers end the tasks they are given.
FairSpec ==
  /\ Spec
  /\ WF_vars(StartDecisionTask)
  /\ WF_vars(Decide)
  /\ WF_vars(ActivityCompletes \/ ActivityFails)

(***************************************************************************)
(* The argument-dependency layers on their own: one call, with any list of *)
(* up to MaxArgs positional and MaxArgs keyword arguments.                 *)
(***************************************************************************)
ArgObjects == {Placeholder, MError("a"), MError("b"), MResult(PyInt(10))}

ArgLists == UNION {[1..n -> ArgObjects] : n \in 0..MaxArgs}

deciderVars ==
  <<workflow, runner, history, previousStartedEventId, task, pending, status,
    attempts, turn, earlier, first_retry, optionsLayer, scheduled_activities>>

LayerInit ==
  /\ workflow = "S1"
  /\ runner = NewRunner
  /\ history = FirstHistory
  /\ previousStartedEventId = 0
  /\ task = 0
  /\ pending = TRUE
  /\ status = "open"
  /\ attempts = 0
  /\ turn = NoTurn
  /\ earlier = <<>>
  /\ first_retry = <<>>
  /\ optionsLayer = NoScheduler
  /\ scheduled_activities = <<>>
  /\ worker = NoWorker
  /\ \E args \in ArgLists, kwargs \in ArgLists, error_handling \in BOOLEAN :
       layer = [NoCall EXCEPT !.args = args, !.kwargs = kwargs,
                              !.error_handling = error_handling]

\* the workflow code makes the call through ArgsDependencyScheduler
SchedulerCall ==
  /\ layer.class = "none"
  /\ layer' = [layer EXCEPT
       !.class = "ArgsDependencyScheduler",
       !.out = Scheduler_remote_activity(layer.args, layer.kwargs, layer.error_handling)]
  /\ UNCHANGED <<deciderVars, worker>>

\* the workflow code makes the call through ArgsDependencyRuntime
RuntimeCall ==
  /\ layer.class = "none"
  /\ layer' = [layer EXCEPT
       !.class = "ArgsDependencyRuntime",
       !.out = Runtime_remote_activity(layer.args, layer.kwargs, layer.error_handling)]
  /\ UNCHANGED <<deciderVars, worker>>

LayerNext == SchedulerCall \/ RuntimeCall

LayerSpec == LayerInit /\ [][LayerNext]_vars

(***************************************************************************)
(* An OptionsScheduler on its own: the workflow code enters and leaves     *)
(* with blocks and makes calls.                                            *)
(***************************************************************************)
\* the deepest stack of option frames
MaxFrames == 3

\* the keywords a with self.options(...) block of the model is given
ScopeKwargs ==
  {[EmptyDict EXCEPT !.heartbeat = <<<<5>>>>],
   [EmptyDict EXCEPT !.heartbeat = <<<<>>>>, !.task_list = <<<<7>>>>],
   [EmptyDict EXCEPT !.retry = <<1>>, !.error_handling = <<TRUE>>],
   [EmptyDict EXCEPT !.retry = <<-1>>, !.delay = <<2>>, !.workflow_duration = <<<<9>>>>]}

\* the keywords a call of the model is given
CallKwargs ==
  {EmptyDict,
   [EmptyDict EXCEPT !.heartbeat = <<<<3>>>>, !.start_to_close = <<<<4>>>>],
   [EmptyDict EXCEPT !.retry = <<2>>, !.error_handling = <<TRUE>>, !.task_list = <<<<8>>>>]}

\* the keywords a sub-workflow call of the model is given
SubworkflowCallKwargs ==
  {EmptyDict,
   [EmptyDict EXCEPT !.workflow_duration = <<<<6>>>>, !.retry = <<2>>]}

otherVars ==
  <<workflow, runner, history, previousStartedEventId, task, pending, status,
    attempts, turn, earlier, first_retry, layer, scheduled_activities>>

OptionsInit ==
  /\ workflow = "S1"
  /\ runner = NewRunner
  /\ history = FirstHistory
  /\ previousStartedEventId = 0
  /\ task = 0
  /\ pending = TRUE
  /\ status = "open"
  /\ attempts = 0
  /\ turn = NoTurn
  /\ earlier = <<>>
  /\ first_retry = <<>>
  /\ layer = NoCall
  /\ \E class \in {"OptionsScheduler", "OptionsRuntime"} :
       optionsLayer = [NoScheduler EXCEPT !.class = class]
  /\ scheduled_activities = <<>>
  /\ worker = NoWorker

\* with self.options(**kwargs): up to the yield
EnterScope == \E kwargs \in ScopeKwargs :
  /\ Len(optionsLayer.activity_options_stack) < MaxFrames
  /\ optionsLayer' =
       IF optionsLayer.class = "OptionsScheduler"
       THEN [optionsLayer EXCEPT
               !.activity_options_stack = Append(@, DictUpdate(Last(@), a_options(kwargs))),
               !.subworkflow_options_stack = Append(@, DictUpdate(Last(@), s_options(kwargs))),
               !.open = Append(@, kwargs)]
       ELSE [optionsLayer EXCEPT
               !.activity_options_stack =
                  Append(@, DictUpdate(Last(@), Runtime_a_options(kwargs))),
               !.subworkflow_options_stack =
                  Append(@, DictUpdate(Last(@), Runtime_a_options(kwargs))),
               !.open = Append(@, kwargs)]
  /\ UNCHANGED <<otherVars, worker>>

\* the with block ends normally: the generator runs on after the yield
ExitScope ==
  /\ optionsLayer.open # <<>>
  /\ optionsLayer' = [optionsLayer EXCEPT
       !.activity_options_stack = Front(@),
       !.subworkflow_options_stack = Front(@),
       !.open = Front(@)]
  /\ UNCHANGED <<otherVars, worker>>

\* an exception raised in the with block leaves it (to an except clause
\* around the block): it is thrown into the generator at the yield, which
\* has no try statement, so nothing after the yield runs
UnwindScope ==
  /\ optionsLayer.open # <<>>
  /\ optionsLayer' = [optionsLayer EXCEPT !.open = Front(@)]
  /\ UNCHANGED <<otherVars, worker>>

\* self.remote_activity(..., **kwargs)
RemoteActivity == \E kwargs \in CallKwargs, inner \in ForwardedOutcomes :
  /\ optionsLayer' = [optionsLayer EXCEPT
       !.call = [made |-> TRUE, kind |-> "activity", kwargs |-> kwargs,
                 open |-> optionsLayer.open,
                 inner |-> inner, returned |-> Options_remote_call(inner),
                 passed |-> IF optionsLayer.class = "OptionsScheduler"
                            THEN OptionsScheduler_remote_activity(
                                   optionsLayer.activity_options_stack, kwargs)
                            ELSE OptionsRuntime_remote_activity(
                                   optionsLayer.activity_options_stack, kwargs)]]
  /\ UNCHANGED <<otherVars, worker>>

\* self.remote_subworkflow(..., **kwargs)
RemoteSubworkflow == \E kwargs \in SubworkflowCallKwargs, inner \in ForwardedOutcomes :
  /\ optionsLayer' = [optionsLayer EXCEPT
       !.call = [made |-> TRUE, kind |-> "subworkflow", kwargs |-> kwargs,
                 open |-> optionsLayer.open,
                 inner |-> inner, returned |-> Options_remote_call(inner),
                 passed |-> IF optionsLayer.class = "OptionsScheduler"
                            THEN OptionsScheduler_remote_subworkflow(
                                   optionsLayer.subworkflow_options_stack, kwargs)
                            ELSE OptionsRuntime_remote_subworkflow(
                                   optionsLayer.subworkflow_options_stack, kwargs)]]
  /\ UNCHANGED <<otherVars, worker>>

OptionsNext ==
  EnterScope \/ ExitScope \/ UnwindScope \/ RemoteActivity \/ RemoteSubworkflow

OptionsSpec == OptionsInit /\ [][OptionsNext]_vars

(***************************************************************************)
(* A worker on its own, from start(client) on: the registrations, then the *)
(* loop over the polled tasks.                                             *)
(***************************************************************************)
\* the histories polled: from WorkflowExecutionStarted to the
\* DecisionTaskStarted of the task, and between them decision tasks started
\* and completed, with any text for a context
PolledHistories ==
  LET texts ==
        {[parses |-> FALSE, keys |-> {}], [parses |-> TRUE, keys |-> ContextFields]}
        \cup {[parses |-> TRUE, keys |-> ContextFields \ {f}] : f \in ContextFields}
      events == {DecisionTaskStarted} \cup
                {DecisionTaskCompleted(<<text>>) : text \in texts}
  IN {<<WorkflowExecutionStarted(WorkflowInput)>> \o middle \o <<DecisionTaskStarted>> :
        middle \in UNION {[1..n -> events] : n \in 0..MaxWindow}}

\* the n-th type of the queue was registered under the name "t" \o n
WorkerInit ==
  /\ workflow = "S1"
  /\ runner = NewRunner
  /\ history = FirstHistory
  /\ previousStartedEventId = 0
  /\ task = 0
  /\ pending = TRUE
  /\ status = "open"
  /\ attempts = 0
  /\ turn = NoTurn
  /\ earlier = <<>>
  /\ first_retry = <<>>
  /\ layer = NoCall
  /\ optionsLayer = NoScheduler
  /\ scheduled_activities = <<>>
  /\ \E class \in {"WorkflowClient", "ActivityClient"} :
       \E queue \in UNION {[1..n -> Registry(class)] : n \in 0..MaxTypes} :
         worker = [NoWorker EXCEPT
                     !.class = class, !.register_queue = queue,
                     !.registered = {"t" \o ToString(n) : n \in DOMAIN queue},
                     !.phase = "registering"]

\* the for loop of start registers the next type of the queue
Register ==
  /\ worker.phase = "registering"
  /\ worker.next <= Len(worker.register_queue)
  /\ LET registered == worker.register_queue[worker.next]
         exit_in == register_pass(worker.class, registered)
     IN worker' = IF exit_in # ""
                  THEN [worker EXCEPT !.met = <<registered>>, !.phase = "exited",
                                      !.exit_code = 1, !.exit_in = exit_in]
                  ELSE [worker EXCEPT !.met = <<registered>>, !.next = @ + 1]
  /\ UNCHANGED <<deciderVars, layer>>

\* the for loop of start is through: the worker enters its while loop
StartPolling ==
  /\ worker.phase = "registering"
  /\ worker.next > Len(worker.register_queue)
  /\ worker' = [worker EXCEPT !.phase = "polling"]
  /\ UNCHANGED <<deciderVars, layer>>

\* a pass of the loop of WorkflowClient.start: a decision task is polled,
\* its previousStartedEventId absent (0) or an earlier DecisionTaskStarted
PollWorkflow ==
  /\ worker.phase = "polling"
  /\ worker.class = "WorkflowClient"
  /\ \E polled \in PolledHistories, name \in {"t1", "unknown"} :
       \E prev_id \in {0} \cup {e \in 1..(Len(polled) - 1) :
                                   polled[e].type = "DecisionTaskStarted"} :
         LET pass == WorkflowClient_pass(worker.registered, polled,
                       [last |-> Len(polled), previousStartedEventId |-> prev_id], name)
         IN worker' = CASE pass.raises = "SystemExit" ->
                             [worker EXCEPT !.pass = pass, !.phase = "exited",
                                            !.exit_code = 1, !.exit_in = pass.in]
                        [] pass.raises = "AssertionError" ->
                             [worker EXCEPT !.pass = pass, !.phase = "crashed",
                                            !.exit_code = 1, !.exit_in = pass.in]
                        [] OTHER -> [worker EXCEPT !.pass = pass]
  /\ UNCHANGED <<deciderVars, layer>>

\* a pass of the loop of ActivityClient.start: an activity task is polled
PollActivity ==
  /\ worker.phase = "polling"
  /\ worker.class = "ActivityClient"
  /\ \E name \in {"t1", "unknown"} :
       LET made == [NoWorker.pass EXCEPT !.polled = TRUE, !.name = name]
       IN worker' = [worker EXCEPT
            !.pass = IF _query(worker.registered, name) = <<>> THEN made
                     ELSE [made EXCEPT !.ran = TRUE, !.replied = TRUE]]
  /\ UNCHANGED <<deciderVars, layer>>

WorkerNext == Register \/ StartPolling \/ PollWorkflow \/ PollActivity

WorkerSpec == WorkerInit /\ [][WorkerNext]_vars

(***************************************************************************)
(* Properties.                                                             *)
(***************************************************************************)
\* the call_ids of the schedule decisions of the last turn's reply
Batch == {ToInt(turn.reply.decisions[i].activityId) : i \in DOMAIN turn.reply.decisions}

\* the ActivityTaskTimedOut events of call_id among the first upto events
TimeoutsOf(call_id, upto) ==
  Cardinality({e \in 1..upto :
                 /\ history[e].type = "ActivityTaskTimedOut"
                 /\ ToInt(history[history[e].scheduledEventId].activityId) = call_id})

\* C1: in every turn the k-th proxied call (k = 0, 1, ...) gets call_id k,
\* however the earlier turns of the runner ended.
C1_CallIdsCountFromZero ==
  \A k \in DOMAIN turn.calls : turn.calls[k].call_id = k - 1

\* C2: a decision task processed a second time, as it was, by the same runner
\* gets the same reply (kind, schedule decisions, context) as the first time.
C2_SameTaskSameReply ==
  earlier # <<>> => turn.reply = earlier[1]

\* C3: a call with a Placeholder among its positional or keyword arguments is
\* not handed on to be scheduled.
C3_PlaceholderNeverForwarded ==
  /\ layer.class # "none"
  /\ \E i \in DOMAIN (layer.args \o layer.kwargs) : (layer.args \o layer.kwargs)[i].k = "P"
  => layer.out.forwarded = <<>>

\* C4: a call that is timed out when a turn starts is in the schedule batch
\* of that turn if and only if its retries_left is greater than 0.
C4_RescheduledIffRetriesLeft ==
  turn.reply.kind = "schedule" =>
    \A call_id \in turn.state.timed_out :
      call_id \in Batch <=> turn.state.retries[call_id] > 0

\* C5: for a call first scheduled with retry = k, after m <= k timeouts of it
\* the retries_left a turn restores and projects is k + 1 - m.
C5_RetryAccounting ==
  turn.task # 0 =>
    \A call_id \in DOMAIN turn.state.retries :
      /\ call_id \in DOMAIN first_retry
      /\ TimeoutsOf(call_id, turn.task) <= first_retry[call_id]
           => turn.state.retries[call_id] =
                first_retry[call_id] + 1 - TimeoutsOf(call_id, turn.task)

\* C5, its case: a call scheduled with retry 3 has timed out twice, was
\* scheduled again each time, and the turn after sees retries_left 2.
C5_Witness ==
  /\ turn.task # 0
  /\ \E call_id \in DOMAIN turn.state.retries :
       /\ call_id \in DOMAIN first_retry
       /\ first_retry[call_id] = DefaultRetry
       /\ TimeoutsOf(call_id, turn.task) = 2
       /\ turn.state.retries[call_id] = 2
       /\ call_id \in Batch

\* C6: in every projected state scheduled, keys(results), keys(with_errors)
\* and timed_out are pairwise disjoint.
C6_PairwiseDisjoint ==
  LET st == turn.state
      sets == <<st.scheduled, DOMAIN st.results, DOMAIN st.with_errors, st.timed_out>>
  IN \A i \in 1..4 : \A j \in 1..4 : i < j => sets[i] \cap sets[j] = {}

\* C7: with error_handling on, when the only activity has failed with "boom"
\* and the workflow catches the error and returns "handled", the reply is
\* CompleteWorkflowExecution with the serialized "handled".
C7_HandledErrorCompletes ==
  /\ workflow = "S5"
  /\ 0 \in DOMAIN turn.state.with_errors
  /\ turn.end = "return"
  => /\ turn.reply.kind = "complete"
     /\ turn.reply.result = JsonDumps(PyStr("handled"))

\* C8: a call with a with_errors entry returns an Error with exactly that
\* reason when the error_handling in effect at the call site is on; when it
\* is off the workflow is terminated with exactly that reason and no schedule
\* decision of the turn is sent.
C8_ErrorPolicy ==
  \A k \in DOMAIN turn.calls :
    LET call == turn.calls[k] IN
    call.had_error /\ ~call.had_result =>
      IF call.lex
      THEN /\ call.out = "Error"
           /\ call.reason = turn.state.with_errors[call.call_id]
      ELSE /\ call.out = "UnhandledActivityError"
           /\ turn.reply.kind = "terminate"
           /\ turn.reply.reason = turn.state.with_errors[call.call_id]
           /\ turn.reply.decisions = <<>>

\* C9: a call that gets Error arguments while error handling is off fails the
\* workflow with exactly the reasons of all the Error arguments joined by a
\* newline, positional arguments first, then keyword values.
C9_ComposedReason ==
  \A k \in DOMAIN turn.calls :
    LET call == turn.calls[k] IN
    /\ call.arg_reasons # <<>>
    /\ ~call.arg_placeholder
    /\ ~call.had_result /\ ~call.had_error
    /\ ~call.lex
    => /\ turn.reply.kind = "terminate"
       /\ turn.reply.reason = Join(call.arg_reasons)

\* C10: a call with Error arguments, no Placeholder argument and
\* error_handling on returns Error(composed reason), is not enqueued, and
\* does not fail or terminate the workflow.
C10_ErrorArgsHandled ==
  \A k \in DOMAIN turn.calls :
    LET call == turn.calls[k] IN
    /\ call.arg_reasons # <<>>
    /\ ~call.arg_placeholder
    /\ ~call.had_result /\ ~call.had_error
    /\ call.lex
    => /\ call.out = "Error"
       /\ call.reason = Join(call.arg_reasons)
       /\ call.call_id \notin Batch
       /\ turn.end \notin {"UnhandledActivityError", "Exception"}

\* C11: when the workflow function returns, the reply is
\* CompleteWorkflowExecution with the returned result exactly when the turn
\* queued nothing and no call is in scheduled; otherwise it is the schedule
\* batch with the context.  A single activity completed with "3" and returned
\* gives CompleteWorkflowExecution(result = "3").
C11_CompleteIffNothingPending ==
  turn.end = "return" =>
    /\ IF turn.activities = <<>> /\ turn.state.scheduled = {}
       THEN /\ turn.reply.kind = "complete"
            /\ turn.reply.result = turn.result
       ELSE /\ turn.reply.kind = "schedule"
            /\ Len(turn.reply.decisions) = Len(turn.activities)
            /\ turn.reply.context = <<_serialize_context(turn.after)>>
    /\ workflow = "S1" /\ turn.state.results = (0 :> "3") /\ turn.calls[1].call_id = 0
         => turn.reply.kind = "complete" /\ turn.reply.result = "3"

\* C11, its cases: S1 completes with "3"; a turn that returns while a call
\* is still in scheduled, or after queuing a call, sends a batch.
C11_Witness ==
  /\ workflow = "S1"
  /\ turn.end = "return"
  /\ turn.state.results = (0 :> "3")
  /\ turn.reply.kind = "complete"
  /\ turn.reply.result = "3"

\* serialize, decode, serialize again
RoundTrip(st) ==
  LET context == _serialize_context(st)
      decoded == _restore_context(EmptyState, <<context>>)
  IN /\ decoded = st
     /\ _serialize_context(decoded) = context
     /\ DOMAIN decoded.event_to_call_id \subseteq 0..MaxInt
     /\ DOMAIN decoded.retries \subseteq 0..MaxInt
     /\ DOMAIN decoded.results \subseteq 0..MaxInt
     /\ DOMAIN decoded.with_errors \subseteq 0..MaxInt

\* C12: for every projected state, serializing the context, decoding it and
\* serializing again gives the same context, and the decoded state equals
\* the original, integer keys and sets restored.
C12_ContextRoundTrip ==
  turn.task # 0 => RoundTrip(turn.state) /\ RoundTrip(turn.after)

\* C12, its case: a context with entries in every collection that has keys
\* and two calls in scheduled.
C12_Witness ==
  /\ turn.task # 0
  /\ Cardinality(turn.after.scheduled) = 2
  /\ turn.after.retries # <<>>
  /\ turn.after.event_to_call_id # <<>>
  /\ RoundTrip(turn.after)

\* the value the field f of a call should have: that of the innermost open
\* scope that defines f, else the call's own, else the default
EffectiveOption(f, open, kwargs) ==
  LET defining == {i \in DOMAIN open : open[i][f] # <<>>}
  IN IF defining # {}
     THEN <<ScopeValue(f, open[CHOOSE i \in defining : \A j \in defining : j <= i][f][1])>>
     ELSE IF kwargs[f] # <<>> THEN <<SiteValue(f, kwargs[f][1])>>
     ELSE <<SiteValue(f, DefaultOption(f))>>

\* C13: the effective options of a call are, field by field, the value of
\* the innermost open scope that defines the field, else the value given at
\* the call site, else the default.
C13_InnermostScopeWins ==
  optionsLayer.call.made /\ optionsLayer.call.kind = "activity" =>
    \A f \in ActivityFields :
      optionsLayer.call.passed[f] =
        EffectiveOption(f, optionsLayer.call.open, optionsLayer.call.kwargs)

\* C14: once a scope is left the options in force are those from before it
\* was entered; at the start of every turn the runner's options stack and
\* error-handling stack hold their base frame only.
C14_StacksAtBase ==
  /\ runner.options_stack = <<NoOptions>>
  /\ runner.error_handling_stack = <<FALSE>>

\* C15: a call with a Placeholder among its arguments returns a Placeholder
\* without being scheduled and without ending the turn; for x = f(1);
\* y = g(x); z = h(2) the first turn schedules both f and h.
C15_PlaceholderArgumentGoesOn ==
  /\ \A k \in DOMAIN turn.calls :
       LET call == turn.calls[k] IN
       call.arg_placeholder /\ ~call.had_result /\ ~call.had_error
         => call.out = "placeholder" /\ call.call_id \notin Batch
  /\ workflow = "Par" /\ turn.task # 0 /\ turn.state.retries = <<>>
       => Batch = {0, 2}

\* C16: for x = f(1); y = g(x); return y.result() the first turn sends one
\* schedule, f with call_id 0; once call 0 has completed with "10" the turn
\* sends one schedule, g with call_id 1 and the resolved value 10 serialized
\* as its input, and neither schedules f again nor terminates the workflow.
C16_DependentCallGetsValue ==
  workflow = "S3" =>
    /\ turn.task # 0 /\ turn.state.retries = <<>>
         => /\ turn.reply.kind = "schedule"
            /\ Len(turn.reply.decisions) = 1
            /\ turn.reply.decisions[1].activityId = "0"
            /\ turn.reply.decisions[1].name = "f"
    /\ turn.state.results = (0 :> "10") /\ DOMAIN turn.state.retries = {0}
         => /\ turn.reply.kind = "schedule"
            /\ Len(turn.reply.decisions) = 1
            /\ turn.reply.decisions[1].activityId = "1"
            /\ turn.reply.decisions[1].name = "g"
            /\ turn.reply.decisions[1].input =
                 [args |-> <<JsonDumps(PyInt(10))>>, kwargs |-> <<>>]

SchedulesOf(call_id) ==
  Cardinality({e \in DOMAIN history :
                 /\ history[e].type = "ActivityTaskScheduled"
                 /\ ToInt(history[e].activityId) = call_id})

\* C18: a call whose retries_left has reached zero is terminally failed: the
\* workflow gets an error for it, so a call first scheduled with retry = k
\* is scheduled at most k + 1 times.
C18_TimeoutsEndInError ==
  /\ \A call_id \in DOMAIN first_retry :
       SchedulesOf(call_id) <= first_retry[call_id] + 1
  /\ \A k \in DOMAIN turn.calls :
       LET call == turn.calls[k] IN
       /\ call.call_id \in turn.state.timed_out
       /\ call.call_id \in DOMAIN turn.state.retries
       /\ turn.state.retries[call.call_id] = 0
       => call.out \in {"Error", "UnhandledActivityError"}

\* C19: retries_left of every call is a non-negative integer in every
\* projected state.
C19_RetriesNonNegative ==
  /\ \A call_id \in DOMAIN turn.state.retries : turn.state.retries[call_id] >= 0
  /\ \A call_id \in DOMAIN turn.after.retries : turn.after.retries[call_id] >= 0

\* C20: the schedule decisions of a turn go out as one batch whose order is
\* the order in which the workflow code made the calls, so the call_ids of a
\* batch are strictly increasing.
C20_BatchInCallOrder ==
  turn.reply.kind = "schedule" =>
    LET queued == SelectSeq(turn.calls, LAMBDA c : c.out = "queued")
        decisions == turn.reply.decisions
    IN /\ Len(decisions) = Len(queued)
       /\ \A i \in DOMAIN decisions : ToInt(decisions[i].activityId) = queued[i].call_id
       /\ \A i \in DOMAIN decisions : \A j \in DOMAIN decisions :
            i < j => ToInt(decisions[i].activityId) < ToInt(decisions[j].activityId)

\* C20, its case: an accepted batch of two schedule decisions.
C20_Witness ==
  /\ turn.reply.kind = "schedule"
  /\ turn.accepted
  /\ Len(turn.reply.decisions) = 2
  /\ Len(SelectSeq(turn.calls, LAMBDA c : c.out = "queued")) = 2

\* C21: when the workflow code dereferences an unresolved value the turn ends
\* there: no later statement runs, every call queued before it is in the
\* reply, and the workflow is neither terminated nor failed.
C21_TurnEndsAtDereference ==
  turn.deref =>
    /\ turn.end = "SyncNeeded"
    /\ turn.reply.kind # "terminate"
    /\ \A k \in DOMAIN turn.calls : turn.calls[k].site < turn.stopped
    /\ LET queued == SelectSeq(turn.calls, LAMBDA c : c.out = "queued")
       IN /\ Len(turn.activities) = Len(queued)
          /\ queued # <<>> => turn.reply.kind = "schedule"
          /\ Batch = {queued[i].call_id : i \in DOMAIN queued}

\* C21, its case: two calls are queued, then the value of one is
\* dereferenced before it is there.
C21_Witness ==
  /\ turn.deref
  /\ turn.end = "SyncNeeded"
  /\ Len(turn.activities) = 2
  /\ Len(turn.reply.decisions) = 2
  /\ turn.stopped < Len(Programs[workflow])

\* C23: when the new events of a polled decision task hold more than one
\* DecisionTaskCompleted the worker fails at once: the workflow function is
\* not run and no reply is sent.
C23_TwoCompletedDecisionsFailHard ==
  worker.pass.polled /\ worker.class = "WorkflowClient" /\ worker.pass.completed > 1 =>
    /\ worker.pass.raises = "AssertionError"
    /\ worker.pass.in = "_new_events"
    /\ worker.phase = "crashed"
    /\ ~worker.pass.ran
    /\ ~worker.pass.replied

\* C23, its case: two DecisionTaskCompleted events, each with a context that
\* restores, are among the new events, and the worker fails on the check.
C23_Witness ==
  /\ worker.pass.polled
  /\ worker.pass.completed = 2
  /\ \A e \in DOMAIN worker.pass.history :
        worker.pass.history[e].type = "DecisionTaskCompleted"
        => _restore_context_raises(worker.pass.history[e].executionContext) = ""
  /\ worker.pass.raises = "AssertionError"
  /\ worker.phase = "crashed"

\* C24: a worker that registers its types at startup exits, with a status
\* other than zero, only when the service holds the type with a default
\* that differs; a type that is new or held with the same defaults lets it
\* go on.
C24_ExitOnlyOnDifferentDefaults ==
  /\ worker.exit_in \in {"start", "register_workflow", "register_activity"} =>
        /\ worker.met # <<>>
        /\ worker.met[1] # <<>>
        /\ worker.met[1][1] # Defaults(worker.class)
  /\ /\ worker.met # <<>>
     /\ worker.met[1] = <<>> \/ worker.met[1] = <<Defaults(worker.class)>>
     => worker.phase # "exited"

\* C24, where the code agrees: the service holds the type with another
\* default, and the worker exits with status 1 inside the registration.
C24_Witness ==
  /\ worker.met # <<>>
  /\ worker.met[1] # <<>>
  /\ worker.met[1][1] # Defaults(worker.class)
  /\ worker.phase = "exited"
  /\ worker.exit_code = 1
  /\ worker.exit_in \in {"register_workflow", "register_activity"}

\* C25: a polled decision task that names a workflow not registered with the
\* worker is skipped: the workflow function is not run, nothing is sent for
\* the task, and the loop goes on polling.
C25_UnregisteredWorkflowSkipped ==
  /\ worker.pass.polled
  /\ worker.class = "WorkflowClient"
  /\ worker.pass.raises = ""
  /\ worker.pass.name \notin worker.registered
  => /\ ~worker.pass.ran
     /\ ~worker.pass.replied
     /\ worker.phase = "polling"

\* C25, its case: a task whose response was built names a workflow the
\* worker has no runner for, and the worker is polling again.
C25_Witness ==
  /\ worker.pass.polled
  /\ worker.class = "WorkflowClient"
  /\ worker.pass.raises = ""
  /\ worker.pass.name = "unknown"
  /\ worker.pass.name \notin worker.registered
  /\ ~worker.pass.ran
  /\ worker.phase = "polling"

\* C26: when sending the reply of a turn fails the loop goes on and the task
\* stays to be decided; the list of the client is empty after every turn,
\* so the decisions of a schedule reply are those of its own turn only.
C26_FailedReplyLeavesNothingQueued ==
  /\ scheduled_activities = <<>>
  /\ turn.task # 0 /\ turn.reply.kind = "schedule" =>
        turn.reply.decisions =
          [i \in DOMAIN turn.activities |-> SWFClient_queue_activity(turn.activities[i])]
  /\ turn.task # 0 /\ ~turn.accepted =>
        /\ status = "open"
        /\ task = turn.task

\* C26, its case: a schedule reply with decisions was not accepted, the task
\* was decided again and this time the reply, with the decisions of that
\* turn only, was accepted.
C26_Witness ==
  /\ earlier # <<>>
  /\ earlier[1].kind = "schedule"
  /\ earlier[1].decisions # <<>>
  /\ turn.accepted
  /\ turn.reply.kind = "schedule"
  /\ Len(turn.reply.decisions) = Len(turn.activities)
  /\ turn.activities # <<>>

\* C27: a context that json cannot parse, or that lacks one of the seven
\* fields, makes the worker exit with a status other than zero before the
\* workflow function is run and before anything is sent.
C27_BadContextExits ==
  /\ worker.pass.polled
  /\ worker.class = "WorkflowClient"
  /\ worker.pass.context # <<>>
  /\ ~worker.pass.context[1].parses \/ ContextFields \ worker.pass.context[1].keys # {}
  => /\ worker.exit_code = 1
     /\ worker.phase \in {"exited", "crashed"}
     /\ ~worker.pass.ran
     /\ ~worker.pass.replied
     /\ worker.pass.completed <= 1 =>
           /\ worker.pass.raises = "SystemExit"
           /\ worker.exit_in = "_restore_context"
           /\ worker.phase = "exited"

\* C27, its case: the context parses and lacks one field, input, and the
\* worker exits in _restore_context.
C27_Witness ==
  /\ worker.pass.polled
  /\ worker.pass.context # <<>>
  /\ worker.pass.context[1].parses
  /\ worker.pass.context[1].keys = ContextFields \ {"input"}
  /\ worker.pass.raises = "SystemExit"
  /\ worker.phase = "exited"
  /\ worker.exit_code = 1

\* C22: a scope pushes onto the activity stack only the activity and the
\* shared options, onto the sub-workflow stack only workflow_duration,
\* decision_duration and the shared options; a sub-workflow call in a scope
\* that sets workflow_duration gets it and is never handed an activity
\* timeout.  The same for OptionsScheduler and OptionsRuntime.
C22_EachStackItsOwnOptions ==
  /\ \A i \in DOMAIN optionsLayer.activity_options_stack :
       \A f \in SubworkflowFields \ ActivityFields : optionsLayer.activity_options_stack[i][f] = <<>>
  /\ \A i \in DOMAIN optionsLayer.subworkflow_options_stack :
       \A f \in ActivityFields \ SubworkflowFields : optionsLayer.subworkflow_options_stack[i][f] = <<>>
  /\ optionsLayer.call.made /\ optionsLayer.call.kind = "subworkflow" =>
       /\ \A f \in ActivityFields \ SubworkflowFields : optionsLayer.call.passed[f] = <<>>
       /\ \A i \in DOMAIN optionsLayer.call.open :
            optionsLayer.call.open[i].workflow_duration # <<>>
            => optionsLayer.call.passed.workflow_duration # <<>>
               /\ \E j \in DOMAIN optionsLayer.call.open :
                     /\ optionsLayer.call.open[j].workflow_duration # <<>>
                     /\ optionsLayer.call.passed.workflow_duration =
                          <<posint_or_none(optionsLayer.call.open[j].workflow_duration[1])>>

\* C22, where the code agrees: a sub-workflow call of an OptionsScheduler,
\* made in a scope that sets workflow_duration inside one that sets
\* heartbeat, is handed the workflow_duration and no heartbeat.
C22_Witness ==
  /\ optionsLayer.class = "OptionsScheduler"
  /\ optionsLayer.call.made
  /\ optionsLayer.call.kind = "subworkflow"
  /\ Len(optionsLayer.call.open) = 2
  /\ optionsLayer.call.open[1].heartbeat # <<>>
  /\ optionsLayer.call.open[2].workflow_duration = <<<<9>>>>
  /\ optionsLayer.call.passed.workflow_duration = <<<<9>>>>
  /\ optionsLayer.call.passed.heartbeat = <<>>

\* the call_id an event of an activity task carries, through the
\* ActivityTaskScheduled event of the task
CallOf(e) ==
  IF history[e].type = "ActivityTaskScheduled" THEN ToInt(history[e].activityId)
  ELSE ToInt(history[history[e].scheduledEventId].activityId)

\* the call of the workflow code an event of an activity task is about: every
\* program calls each of its activities in one statement only
SiteOf(e) ==
  LET name == IF history[e].type = "ActivityTaskScheduled" THEN history[e].activityType
              ELSE history[history[e].scheduledEventId].activityType
  IN CHOOSE pc \in DOMAIN Programs[workflow] :
       /\ Programs[workflow][pc].op = "call"
       /\ Programs[workflow][pc].act = name

\* C28: every turn projects, from the context of the turn before and the
\* events since, the same event_to_call_id, scheduled, results, timed_out,
\* with_errors and input as a fold of the whole history from its first event.
C28_IncrementalEqualsWholeFold ==
  turn.task # 0 =>
    Projected(turn.state) = Projected(FoldWholeHistory(history, turn.task))

\* C28, its case: a turn restored a context, and among its new events one
\* closed an activity task before the DecisionTaskCompleted of the turn
\* before, that is while that turn was being decided.
C28_Witness ==
  /\ turn.task # 0
  /\ turn.previousStartedEventId # 0
  /\ \E c \in (turn.previousStartedEventId + 1)..turn.task :
        /\ history[c].type = "DecisionTaskCompleted"
        /\ \E e \in (turn.previousStartedEventId + 1)..(c - 1) :
              history[e].type \in {"ActivityTaskCompleted", "ActivityTaskFailed",
                                    "ActivityTaskTimedOut"}
  /\ Projected(turn.state) = Projected(FoldWholeHistory(history, turn.task))

\* C29: the batch of a turn has no call_id twice and no call_id that the
\* turn sees scheduled, completed or failed; so no call of the workflow code,
\* under whatever call_id, has two activity tasks outstanding, and none is
\* scheduled after it completed or failed.
C29_NoCallScheduledTwice ==
  /\ turn.task # 0 =>
        /\ Batch \cap (turn.state.scheduled \cup DOMAIN turn.state.results
                          \cup DOMAIN turn.state.with_errors) = {}
        /\ Cardinality(Batch) = Len(turn.reply.decisions)
  /\ \A a, b \in Outstanding :
        CallOf(a) = CallOf(b) \/ SiteOf(a) = SiteOf(b) => a = b
  /\ \A c, e \in DOMAIN history :
        /\ history[c].type \in {"ActivityTaskCompleted", "ActivityTaskFailed"}
        /\ history[e].type = "ActivityTaskScheduled"
        /\ CallOf(c) = CallOf(e) \/ SiteOf(c) = SiteOf(e)
        => e < c

\* C29, its case: a turn that sees one call completed and another one
\* scheduled sends a batch, and the batch is recorded.
C29_Witness ==
  /\ turn.task # 0
  /\ turn.accepted
  /\ Batch # {}
  /\ turn.state.scheduled # {}
  /\ turn.state.results # <<>>
  /\ \E e \in DOMAIN history : e > turn.task /\ history[e].type = "ActivityTaskScheduled"

\* C30: a turn that _SyncNeeded ended is never answered with
\* CompleteWorkflowExecution: it queued a call or sees one scheduled, and the
\* reply is the schedule batch.
C30_SyncNeededNeverCompletes ==
  turn.end = "SyncNeeded" =>
    /\ turn.reply.kind = "schedule"
    /\ turn.activities # <<>> \/ turn.state.scheduled # {}

\* C30, its case: _SyncNeeded ended a turn that queued nothing, and only a
\* call scheduled earlier keeps the workflow from being completed.
C30_Witness ==
  /\ turn.end = "SyncNeeded"
  /\ turn.activities = <<>>
  /\ turn.state.scheduled # {}
  /\ turn.reply.kind = "schedule"

\* C31: in a run where no activity task times out, no turn ends in an
\* unhandled error, every reply is accepted and the history stays short of
\* MaxEvents, the execution is eventually completed with the value the
\* workflow function returned.
C31_EventuallyCompleted ==
  [](/\ \A e \in DOMAIN history : history[e].type # "ActivityTaskTimedOut"
     /\ turn.end \notin {"UnhandledActivityError", "Exception"}
     /\ turn.task # 0 => turn.accepted
     /\ Len(history) + 3 <= MaxEvents)
  => <>(/\ status = "completed"
        /\ turn.end = "return"
        /\ turn.reply.result = turn.result)

\* C31, its case: the only activity has failed, the workflow handled the error
\* and returned, the accepted reply is an empty batch, and nothing is running
\* or pending: no decision task will come.
C31_Witness ==
  /\ status = "open"
  /\ turn.end = "return"
  /\ turn.accepted
  /\ turn.reply.kind = "schedule"
  /\ turn.reply.decisions = <<>>
  /\ Outstanding = {}
  /\ task = 0
  /\ ~pending
  /\ Len(history) < MaxEvents

\* C32: a call whose arguments hold both a Placeholder and an Error returns
\* a Placeholder, in either order of the two, and the turn it is made in does
\* not terminate the workflow: the error waits for a turn where no argument
\* is a Placeholder.
C32_PlaceholderBeforeError ==
  \A i \in DOMAIN turn.calls :
    turn.calls[i].arg_placeholder /\ turn.calls[i].arg_reasons # <<>>
      => /\ turn.calls[i].out = "placeholder"
         /\ turn.end \notin {"UnhandledActivityError", "Exception"}
         /\ turn.reply.kind # "terminate"

\* C32, its case: h(x, y) is called with x an Error and y a Placeholder, in
\* a scope with error_handling on, and the turn terminates the workflow.
C32_Witness ==
  /\ workflow = "ErrOn"
  /\ \E i \in DOMAIN turn.calls :
       /\ turn.calls[i].site = 4
       /\ turn.calls[i].arg_placeholder
       /\ turn.calls[i].arg_reasons # <<>>
       /\ turn.calls[i].out = "UnhandledActivityError"
  /\ turn.reply.kind = "terminate"
  /\ Outstanding # {}

\* C33: a remote call made through the options layer returns to the workflow
\* code what the layer it forwards to gave back, which is a Placeholder, a
\* Result or an Error, never None.
C33_CallReturnsOutcome ==
  optionsLayer.call.made =>
    /\ optionsLayer.call.returned = optionsLayer.call.inner
    /\ optionsLayer.call.returned.k \in {"P", "R", "E"}

\* C33, its case: inside a with block a sub-workflow call is forwarded, the
\* layer below gives back a Result, and the call returns None.
C33_Witness ==
  /\ optionsLayer.call.made
  /\ optionsLayer.call.kind = "subworkflow"
  /\ optionsLayer.call.open # <<>>
  /\ optionsLayer.call.inner = MResult(PyInt(10))
  /\ optionsLayer.call.returned = Plain(PyNone)

====
